---- MODULE Spec2Model ----
\* Green-thread runtime of src/chap6/mult/src/green.rs: run queue, waiting set,
\* mailboxes, identity set, retired-stack slot, main context, and the host.
EXTENDS Integers, Sequences, FiniteSets, TLC

\* ---------------------------------------------------------------- bounds
\* stacks that alloc() hands out over the life of the process
MaxStacks == 3
\* values rand::random::<u64>() is drawn from (1..MaxId)
MaxId == 3
\* send calls per spawn_from_main run
MaxSends == 2
\* turns each ping-pong thread plays (1..MaxTurns)
MaxTurns == 4

Stacks == 1..MaxStacks
IdSpace == 1..MaxId

\* PAGE_SIZE, and the values of stack_size a caller passes: none, less than a
\* page, the guard page alone, a page and a part, two pages
PAGE_SIZE == 4 * 1024
StackSizes == {0, 100, PAGE_SIZE, PAGE_SIZE + 100, 2 * PAGE_SIZE}

\* ---------------------------------------------------------------- state
VARIABLES
  CTX_MAIN,      \* "None", or the resume point saved in the host's Registers
  UNUSED_STACK,  \* null_mut(), or the stack waiting to be deallocated
  CONTEXTS,      \* the run queue: a sequence of Context
  ID,            \* null, or a pointer to the identity set
  MESSAGES,      \* null, or a pointer to the MappedList
  WAITING,       \* null, or a pointer to the map identity -> Context
  cpu,           \* whose stack the processor is on: HOST or a green stack
  pc,            \* where the processor is
  panicked,      \* "none", or the message of the panic that ended the process
  heap,          \* every stack's allocation state
  frame,         \* per green stack: the runtime call it is inside, and its local
  ret,           \* per green stack: what the last runtime call returned
  started,       \* per green stack: how often entry_point called its entry
  returned,      \* per green stack: how often its entry returned
  sent,          \* per identity: the messages push_back appended, in order
  got,           \* per identity: the messages recv returned, in order
  user,          \* per green stack: the ping-pong program's locals
  counter,       \* the ping-pong programs' shared counter
  turns          \* the N of the ping-pong run

vars == <<CTX_MAIN, UNUSED_STACK, CONTEXTS, ID, MESSAGES, WAITING, cpu, pc,
          panicked, heap, frame, ret, started, returned, sent, got, user,
          counter, turns>>

\* ptr::null_mut() for the stack slot, and the host's pseudo stack
null_mut == 0
HOST == 0
\* a raw pointer is null (<<>>) or points at one value (<<v>>)
NULL == <<>>
Ref(v) == <<v>>
Deref(p) == p[1]

\* Option<T>
None == <<>>
Some(v) == <<v>>

\* the empty HashMap
EmptyMap == [k \in {} |-> 0]

\* what a runtime call handed back to user code
Unit == [tag |-> "unit", val |-> 0]
RetId(id) == [tag |-> "id", val |-> id]
RetOpt(o) == IF o = None THEN [tag |-> "None", val |-> 0]
                         ELSE [tag |-> "Some", val |-> o[1]]

\* the started/returned counters stop at 2: "more than once"
Bump(n) == IF n < 2 THEN n + 1 ELSE n

NoCall == [call |-> "none", arg |-> 0]
InCall(c, a) == [call |-> c, arg |-> a]
NoUser == [at |-> "none", i |-> 0, peer |-> 0]

\* ---------------------------------------------------------------- MappedList
\* push_back that pushes at the front of key's list
push_back_front(map, key, val) ==
  IF key \in DOMAIN map
    THEN [map EXCEPT ![key] = <<val>> \o @]
    ELSE [k \in DOMAIN map \cup {key} |-> IF k = key THEN <<val>> ELSE map[k]]

\* push_back that stores nothing
push_back_dropped(map, key, val) == map

\* MappedList::push_back: append to key's list, creating the list when absent
push_back(map, key, val) ==
  IF key \in DOMAIN map
    THEN [map EXCEPT ![key] = Append(@, val)]
    ELSE [k \in DOMAIN map \cup {key} |-> IF k = key THEN <<val>> ELSE map[k]]

\* MappedList::pop_front: the value it returns
pop_front_val(map, key) ==
  IF key \in DOMAIN map /\ map[key] # <<>> THEN Some(Head(map[key])) ELSE None

\* pop_front that drops key's whole list
pop_front_map_all(map, key) == [k \in DOMAIN map \ {key} |-> map[k]]

\* MappedList::pop_front: the map it leaves (an emptied list is removed)
pop_front_map(map, key) ==
  IF key \in DOMAIN map
    THEN LET list == IF map[key] = <<>> THEN <<>> ELSE Tail(map[key])
         IN  IF Len(list) = 0
               THEN [k \in DOMAIN map \ {key} |-> map[k]]
               ELSE [map EXCEPT ![key] = list]
    ELSE map

\* remove that leaves the entry in the map
map_remove_kept(map, key) == map

\* HashMap::remove / HashMap::insert on the waiting map
map_remove(map, key) == [k \in DOMAIN map \ {key} |-> map[k]]
map_insert(map, key, val) ==
  [k \in DOMAIN map \cup {key} |-> IF k = key THEN val ELSE map[k]]

\* ---------------------------------------------------------------- Context
\* Registers::new: a fresh context starts at entry_point
Registers_new == "entry_point"

\* the stack alloc() returns: one that is not allocated
FreshStacks == {s \in Stacks : heap[s] = "free"}

\* Context::new that does not store the identity it is given
Context_new_anonymous(func, stack_size, s, id) ==
  [regs |-> Registers_new, saved |-> TRUE, stack |-> s,
   stack_layout |-> stack_size, entry |-> func, id |-> 0]

\* Context::new: the thread control block over stack s; saved tells whether regs
\* hold a resume point that no switch_context has consumed yet
Context_new(func, stack_size, s, id) ==
  [regs |-> Registers_new, saved |-> TRUE, stack |-> s,
   stack_layout |-> stack_size, entry |-> func, id |-> id]

\* Context::new, lines 152-157: the heap once alloc has returned stack s and
\* mprotect has made its lowest page inaccessible
allocated(h, s) == [h EXCEPT ![s] = "allocated"]
mprotect_none(h, s) == [h EXCEPT ![s] = IF @ = "allocated" THEN "guarded" ELSE @]

\* Context::new, lines 151-157: whether it panics. Layout::from_size_align
\* accepts every size that does not overflow isize; alloc with size 0 is
\* undefined and returns null or some address; mprotect(..).unwrap() panics
\* when that address is not mapped
Context_new_panics(stack_size) ==
  IF stack_size = 0 THEN {TRUE, FALSE} ELSE {FALSE}

\* the first push of entry_point on a new stack: rsp starts at stack +
\* stack_size, so with stack_size <= PAGE_SIZE it writes into the guard page
\* and faults; with stack_size 0 it writes below the block, which may fault
stack_faults(stack_size) ==
  IF stack_size = 0 THEN {TRUE, FALSE}
  ELSE IF stack_size <= PAGE_SIZE THEN {TRUE}
  ELSE {FALSE}

\* the identities that occur somewhere in the state: in use, sent to, or held
\* by a thread as the result of spawn
Mentioned ==
  (IF ID = NULL THEN {} ELSE Deref(ID))
    \cup {k \in IdSpace : sent[k] # <<>>}
    \cup {frame[s].arg : s \in {x \in Stacks : frame[x].call = "spawn"}}
    \cup {ret[s].val : s \in {x \in Stacks : ret[x].tag = "id"}}

\* rand::random::<u64>(): any value; the runtime only compares identities, so
\* of the values that occur nowhere in the state the least stands for all
random ==
  {rnd \in IdSpace :
     rnd \in Mentioned \/ \A o \in IdSpace \ Mentioned : rnd <= o}

\* get_id without the membership test: the first draw is returned
get_id_any == random

\* get_id: the candidates the loop can return (not in the identity set)
get_id == {rnd \in random : rnd \notin Deref(ID)}

\* set_context forgotten: the caller's registers are not saved
set_context_skipped(ctx, at) == ctx

\* set_context(regs) returning 0: the caller's position is saved in regs
set_context(ctx, at) == [ctx EXCEPT !.regs = at, !.saved = TRUE]

\* switch_context(regs of ctx): the registers are loaded, the save is consumed
Resume(ctx) == [ctx EXCEPT !.saved = FALSE]

\* alloc(layout): the lowest stack never handed out
alloc == CHOOSE s \in FreshStacks : \A o \in FreshStacks : s <= o

Panic(msg) ==
  /\ panicked' = msg
  /\ pc' = "panic"
  /\ UNCHANGED <<CTX_MAIN, UNUSED_STACK, CONTEXTS, ID, MESSAGES, WAITING, cpu,
                 heap, frame, ret, started, returned, sent, got, user, counter,
                 turns>>

\* ---------------------------------------------------------------- rm_unused_stack
\* rm_unused_stack that releases the stack without unprotecting its guard page
mprotect_skipped(h, s) == h

\* mprotect(stack, PAGE_SIZE, PROT_READ | PROT_WRITE): the guard page of an
\* allocated stack becomes accessible
mprotect_rw(h, s) == [h EXCEPT ![s] = IF @ = "guarded" THEN "allocated" ELSE @]

\* dealloc(stack, layout): an accessible stack is released; one whose guard
\* page is still protected is released with the page inaccessible; one that
\* is not allocated is released a second time
dealloc(h, s) ==
  [h EXCEPT ![s] = IF @ = "allocated" THEN "freed"
                   ELSE IF @ = "guarded" THEN "freed_guarded"
                   ELSE "double_free"]

\* rm_unused_stack that releases nothing
rm_heap_kept == heap

\* the heap after rm_unused_stack: the retired stack is unprotected, then
\* released
rm_heap ==
  IF UNUSED_STACK # null_mut
    THEN dealloc(mprotect_rw(heap, UNUSED_STACK), UNUSED_STACK)
    ELSE heap

\* rm_unused_stack that leaves the freed stack in the slot
rm_unused_stack_kept ==
  /\ heap' = rm_heap
  /\ UNCHANGED UNUSED_STACK

rm_unused_stack ==
  /\ heap' = rm_heap
  /\ UNUSED_STACK' = null_mut

\* ---------------------------------------------------------------- schedule
\* schedule that saves the front and leaves it at the front
rotate_none(q) == <<set_context(Head(q), "schedule")>> \o Tail(q)

\* schedule, lines 204-207: the front is saved and moved to the back
rotate(q) == Append(Tail(q), set_context(Head(q), "schedule"))

\* schedule that switches to the back of the run queue instead of the front
schedule_to_back(q, call, arg, rv) ==
  IF Len(q) = 1
    THEN /\ CONTEXTS' = q
         /\ frame' = [frame EXCEPT ![cpu] = NoCall]
         /\ ret' = [ret EXCEPT ![cpu] = rv]
         /\ UNCHANGED <<cpu, pc, panicked>>
    ELSE LET q1 == rotate(q)
             next == q1[Len(q1)]
         IN  /\ CONTEXTS' = [q1 EXCEPT ![Len(q1)] = Resume(next)]
             /\ cpu' = next.stack
             /\ pc' = next.regs
             /\ frame' = [frame EXCEPT ![cpu] = InCall(call, arg)]
             /\ ret' = [ret EXCEPT ![cpu] = Unit]
             /\ UNCHANGED panicked

\* schedule that returns at once, whoever else is runnable
schedule_skipped(q, call, arg, rv) ==
  /\ CONTEXTS' = q
  /\ frame' = [frame EXCEPT ![cpu] = NoCall]
  /\ ret' = [ret EXCEPT ![cpu] = rv]
  /\ UNCHANGED <<cpu, pc, panicked>>

\* schedule without the early return of lines 199-201
schedule_always(q, call, arg, rv) ==
  LET q1 == rotate(q)
      next == Head(q1)
  IN  /\ CONTEXTS' = [q1 EXCEPT ![1] = Resume(next)]
      /\ cpu' = next.stack
      /\ pc' = next.regs
      /\ frame' = [frame EXCEPT ![cpu] = InCall(call, arg)]
      /\ ret' = [ret EXCEPT ![cpu] = Unit]
      /\ UNCHANGED panicked

\* schedule from the call to the switch (or to the early return), on the run
\* queue q its caller left; call/arg/rv: the runtime call that is under way,
\* its local, and what it returns when schedule comes back at once
schedule(q, call, arg, rv) ==
  IF Len(q) = 1
    THEN /\ CONTEXTS' = q
         /\ frame' = [frame EXCEPT ![cpu] = NoCall]
         /\ ret' = [ret EXCEPT ![cpu] = rv]
         /\ UNCHANGED <<cpu, pc, panicked>>
    ELSE IF q = <<>>
    THEN /\ CONTEXTS' = q
         /\ panicked' = "unwrap"
         /\ pc' = "panic"
         /\ UNCHANGED <<cpu, frame, ret>>
    ELSE LET q1 == rotate(q)
             next == Head(q1)
         IN  /\ CONTEXTS' = [q1 EXCEPT ![1] = Resume(next)]
             /\ cpu' = next.stack
             /\ pc' = next.regs
             /\ frame' = [frame EXCEPT ![cpu] = InCall(call, arg)]
             /\ ret' = [ret EXCEPT ![cpu] = Unit]
             /\ UNCHANGED panicked

\* a green thread is in its entry function, between runtime calls
InUser == cpu # HOST /\ pc = "user" /\ panicked = "none"

\* schedule() as user code calls it
schedule_call ==
  /\ schedule(CONTEXTS, "schedule", 0, Unit)
  /\ UNCHANGED <<CTX_MAIN, UNUSED_STACK, ID, MESSAGES, WAITING, heap, started,
                 returned, sent, got>>

\* schedule, lines 216-218: a thread suspended in schedule is resumed
ResumeSchedule ==
  /\ cpu # HOST /\ pc = "schedule" /\ panicked = "none"
  /\ rm_unused_stack
  /\ pc' = "user"
  /\ ret' = [ret EXCEPT ![cpu] =
               IF frame[cpu].call = "spawn" THEN RetId(frame[cpu].arg) ELSE Unit]
  /\ frame' = [frame EXCEPT ![cpu] = NoCall]
  /\ UNCHANGED <<CTX_MAIN, CONTEXTS, ID, MESSAGES, WAITING, cpu, panicked,
                 started, returned, sent, got, user, counter, turns>>

\* ---------------------------------------------------------------- spawn
\* spawn(func, stack_size): get_id, Context::new, push_back, schedule, id
spawn(func, stack_size) ==
  \E id \in get_id : \E panics \in Context_new_panics(stack_size) :
    IF panics
      THEN /\ ID' = Ref(Deref(ID) \cup {id})
           /\ panicked' = "unwrap"
           /\ pc' = "panic"
           /\ UNCHANGED <<CTX_MAIN, UNUSED_STACK, CONTEXTS, MESSAGES, WAITING,
                          cpu, heap, frame, ret, started, returned, sent, got>>
      ELSE
        LET s == alloc
        IN  /\ FreshStacks # {}
            /\ ID' = Ref(Deref(ID) \cup {id})
            /\ heap' = mprotect_none(allocated(heap, s), s)
            /\ schedule(Append(CONTEXTS, Context_new(func, stack_size, s, id)),
                        "spawn", id, RetId(id))
            /\ UNCHANGED <<CTX_MAIN, UNUSED_STACK, MESSAGES, WAITING, started,
                           returned, sent, got>>

\* ---------------------------------------------------------------- entry_point
\* entry_point, lines 222-226: a fresh context, if its stack can be written,
\* calls its entry function
EntryPoint ==
  /\ cpu # HOST /\ pc = "entry_point" /\ panicked = "none"
  /\ IF CONTEXTS = <<>>
       THEN Panic("unwrap")
       ELSE \/ /\ TRUE \in stack_faults(Head(CONTEXTS).stack_layout)
               /\ Panic("SIGSEGV")
            \/ /\ FALSE \in stack_faults(Head(CONTEXTS).stack_layout)
               /\ pc' = "user"
               /\ started' = [started EXCEPT ![cpu] = Bump(@)]
               /\ user' = [user EXCEPT ![cpu] =
                            [at |-> Head(CONTEXTS).entry, i |-> 0, peer |-> 0]]
               /\ UNCHANGED <<CTX_MAIN, UNUSED_STACK, CONTEXTS, ID, MESSAGES,
                              WAITING, cpu, panicked, heap, frame, ret,
                              returned, sent, got, counter, turns>>

\* the retired-stack slot after entry_point stores ctx's stack in it
retire(ctx) == ctx.stack

\* the heap after that store: a stack still pending in the slot has no owner left
retire_heap ==
  IF UNUSED_STACK # null_mut /\ heap[UNUSED_STACK] = "guarded"
    THEN [heap EXCEPT ![UNUSED_STACK] = "leaked"]
    ELSE heap

\* the trampoline that prefers the main context to the new front
after_exit_main_first(rest) ==
  IF CTX_MAIN # "None" THEN "main"
  ELSE IF rest # <<>> THEN "front"
  ELSE "fall"

\* the trampoline without the way back to the main context
after_exit_no_main(rest) == IF rest # <<>> THEN "front" ELSE "fall"

\* entry_point, lines 241-255: where control goes once the thread is removed:
\* the new front, else the saved main context, else the fall-through panic
after_exit(rest) ==
  IF rest # <<>> THEN "front"
  ELSE IF CTX_MAIN # "None" THEN "main"
  ELSE "fall"

\* entry_point, lines 231-255: the entry function has returned
entry_return ==
  /\ returned' = [returned EXCEPT ![cpu] = Bump(@)]
  /\ IF CONTEXTS = <<>>
       THEN /\ panicked' = "unwrap"
            /\ pc' = "panic"
            /\ UNCHANGED <<CTX_MAIN, UNUSED_STACK, CONTEXTS, ID, MESSAGES,
                           WAITING, cpu, heap, frame, ret, started, sent, got>>
       ELSE LET ctx == Head(CONTEXTS)
                rest == Tail(CONTEXTS)
            IN  /\ ID' = Ref(Deref(ID) \ {ctx.id})
                /\ UNUSED_STACK' = retire(ctx)
                /\ heap' = retire_heap
                /\ IF after_exit(rest) = "front"
                     THEN /\ CONTEXTS' = [rest EXCEPT ![1] = Resume(Head(rest))]
                          /\ cpu' = Head(rest).stack
                          /\ pc' = Head(rest).regs
                          /\ UNCHANGED panicked
                     ELSE IF after_exit(rest) = "main"
                     THEN /\ CONTEXTS' = rest
                          /\ cpu' = HOST
                          /\ pc' = CTX_MAIN
                          /\ UNCHANGED panicked
                     ELSE /\ CONTEXTS' = rest
                          /\ panicked' = "entry_point"
                          /\ pc' = "panic"
                          /\ UNCHANGED cpu
                /\ frame' = [frame EXCEPT ![cpu] = NoCall]
                /\ ret' = [ret EXCEPT ![cpu] = Unit]
                /\ UNCHANGED <<CTX_MAIN, MESSAGES, WAITING, started, sent, got>>

\* the stacks of the thread control blocks that clear() drops: nothing frees them
dropped == {CONTEXTS[i].stack : i \in 1..Len(CONTEXTS)}
             \cup (IF WAITING = NULL THEN {}
                   ELSE {Deref(WAITING)[k].stack : k \in DOMAIN Deref(WAITING)})

\* ---------------------------------------------------------------- send
\* send without its wake-up
wake_missing(q, waiting, key) == [q |-> q, waiting |-> waiting]

\* send that puts the woken receiver at the front of the run queue
wake_front(q, waiting, key) ==
  IF key \in DOMAIN waiting
    THEN [q |-> <<waiting[key]>> \o q, waiting |-> map_remove(waiting, key)]
    ELSE [q |-> q, waiting |-> map_remove(waiting, key)]

\* send that queues the woken receiver right behind the sender
wake_next(q, waiting, key) ==
  IF key \in DOMAIN waiting
    THEN [q |-> <<Head(q), waiting[key]>> \o Tail(q),
          waiting |-> map_remove(waiting, key)]
    ELSE [q |-> q, waiting |-> map_remove(waiting, key)]

\* send, lines 325-327: a receiver waiting under key leaves the waiting set for
\* the back of the run queue; the run queue and the waiting set that result
wake(q, waiting, key) ==
  IF key \in DOMAIN waiting
    THEN [q |-> Append(q, waiting[key]), waiting |-> map_remove(waiting, key)]
    ELSE [q |-> q, waiting |-> map_remove(waiting, key)]

\* send(key, msg)
send(key, msg) ==
  /\ MESSAGES' = Ref(push_back(Deref(MESSAGES), key, msg))
  /\ sent' = [sent EXCEPT ![key] = Append(@, msg)]
  /\ WAITING' = Ref(wake(CONTEXTS, Deref(WAITING), key).waiting)
  /\ schedule(wake(CONTEXTS, Deref(WAITING), key).q, "send", 0, Unit)
  /\ UNCHANGED <<CTX_MAIN, UNUSED_STACK, ID, heap, started, returned, got>>

\* ---------------------------------------------------------------- recv
\* got after recv hands out option o to the thread of identity key
receive(key, o) ==
  IF o = None THEN got ELSE [got EXCEPT ![key] = Append(@, o[1])]

\* the deadlock test comparing with the wrong length
deadlocked_never(q) == Len(q) = 0

\* the deadlock test that also fires when one other thread is runnable
deadlocked_pair(q) == Len(q) <= 2

\* recv, line 343: no other thread is runnable
deadlocked(q) == Len(q) = 1

\* recv(), from the call to its return, its panic or its switch
recv ==
  IF CONTEXTS = <<>>
    THEN /\ panicked' = "unwrap"
         /\ pc' = "panic"
         /\ UNCHANGED <<CTX_MAIN, UNUSED_STACK, CONTEXTS, ID, MESSAGES, WAITING,
                        cpu, heap, frame, ret, started, returned, sent, got>>
    ELSE
      LET key == Head(CONTEXTS).id
          msg == pop_front_val(Deref(MESSAGES), key)
      IN  IF msg # None
            THEN /\ MESSAGES' = Ref(pop_front_map(Deref(MESSAGES), key))
                 /\ ret' = [ret EXCEPT ![cpu] = RetOpt(msg)]
                 /\ frame' = [frame EXCEPT ![cpu] = NoCall]
                 /\ got' = receive(key, msg)
                 /\ UNCHANGED <<CTX_MAIN, UNUSED_STACK, CONTEXTS, ID, WAITING,
                                cpu, pc, panicked, heap, started, returned, sent>>
            ELSE IF deadlocked(CONTEXTS)
            THEN /\ panicked' = "deadlock"
                 /\ pc' = "panic"
                 /\ UNCHANGED <<CTX_MAIN, UNUSED_STACK, CONTEXTS, ID, MESSAGES,
                                WAITING, cpu, heap, frame, ret, started, returned,
                                sent, got>>
            ELSE IF Tail(CONTEXTS) = <<>>
            THEN /\ panicked' = "unwrap"
                 /\ pc' = "panic"
                 /\ CONTEXTS' = <<>>
                 /\ WAITING' = Ref(map_insert(Deref(WAITING), key,
                                              Head(CONTEXTS)))
                 /\ UNCHANGED <<CTX_MAIN, UNUSED_STACK, ID, MESSAGES, cpu, heap,
                                frame, ret, started, returned, sent, got>>
            ELSE LET ctx == Head(CONTEXTS)
                     rest == Tail(CONTEXTS)
                     next == Head(rest)
                 IN  /\ WAITING' = Ref(map_insert(Deref(WAITING), key,
                                                  set_context(ctx, "recv")))
                     /\ CONTEXTS' = [rest EXCEPT ![1] = Resume(next)]
                     /\ cpu' = next.stack
                     /\ pc' = next.regs
                     /\ frame' = [frame EXCEPT ![cpu] = InCall("recv", key)]
                     /\ ret' = [ret EXCEPT ![cpu] = Unit]
                     /\ UNCHANGED <<CTX_MAIN, UNUSED_STACK, ID, MESSAGES,
                                    panicked, heap, started, returned, sent, got>>

\* recv, lines 358-362: a thread suspended in recv is resumed
ResumeRecv ==
  /\ cpu # HOST /\ pc = "recv" /\ panicked = "none"
  /\ rm_unused_stack
  /\ LET key == frame[cpu].arg
         msg == pop_front_val(Deref(MESSAGES), key)
     IN  /\ MESSAGES' = Ref(pop_front_map(Deref(MESSAGES), key))
         /\ ret' = [ret EXCEPT ![cpu] = RetOpt(msg)]
         /\ got' = receive(key, msg)
  /\ pc' = "user"
  /\ frame' = [frame EXCEPT ![cpu] = NoCall]
  /\ UNCHANGED <<CTX_MAIN, CONTEXTS, ID, WAITING, cpu, panicked, started,
                 returned, sent, user, counter, turns>>

\* ---------------------------------------------------------------- spawn_from_main
NoLog == [k \in IdSpace |-> <<>>]

\* spawn_from_main without the test of CTX_MAIN
spawn_from_main_unchecked(func, stack_size) ==
  \E id \in random :
    LET s == alloc
        q == Append(CONTEXTS, Context_new(func, stack_size, s, id))
        first == Head(q)
    IN  /\ FreshStacks # {}
        /\ CTX_MAIN' = "spawn_from_main"
        /\ MESSAGES' = Ref(EmptyMap)
        /\ WAITING' = Ref(EmptyMap)
        /\ ID' = Ref({id})
        /\ heap' = mprotect_none(allocated(heap, s), s)
        /\ CONTEXTS' = [q EXCEPT ![1] = Resume(first)]
        /\ cpu' = first.stack
        /\ pc' = first.regs
        /\ sent' = NoLog
        /\ got' = NoLog
        /\ UNCHANGED <<UNUSED_STACK, panicked, frame, ret, started, returned>>

\* spawn_from_main(func, stack_size), from the call to the first switch
spawn_from_main(func, stack_size) ==
  IF CTX_MAIN # "None"
    THEN /\ panicked' = "spawn_from_main is called twice"
         /\ pc' = "panic"
         /\ UNCHANGED <<CTX_MAIN, UNUSED_STACK, CONTEXTS, ID, MESSAGES, WAITING,
                        cpu, heap, frame, ret, started, returned, sent, got>>
    ELSE \E id \in {rnd \in random : rnd \notin {}} :
         \E panics \in Context_new_panics(stack_size) :
         IF panics
           THEN /\ CTX_MAIN' = "spawn_from_main"
                /\ MESSAGES' = Ref(EmptyMap)
                /\ WAITING' = Ref(EmptyMap)
                /\ ID' = Ref({id})
                /\ panicked' = "unwrap"
                /\ pc' = "panic"
                /\ UNCHANGED <<UNUSED_STACK, CONTEXTS, cpu, heap, frame, ret,
                               started, returned, sent, got>>
           ELSE
           LET s == alloc
               q == Append(CONTEXTS, Context_new(func, stack_size, s, id))
               first == Head(q)
           IN  /\ FreshStacks # {}
               /\ CTX_MAIN' = "spawn_from_main"
               /\ MESSAGES' = Ref(EmptyMap)
               /\ WAITING' = Ref(EmptyMap)
               /\ ID' = Ref({id})
               /\ heap' = mprotect_none(allocated(heap, s), s)
               /\ CONTEXTS' = [q EXCEPT ![1] = Resume(first)]
               /\ cpu' = first.stack
               /\ pc' = first.regs
               /\ sent' = NoLog
               /\ got' = NoLog
               /\ UNCHANGED <<UNUSED_STACK, panicked, frame, ret, started,
                              returned>>

\* the heap after teardown: the retired stack is freed, the stacks of dropped
\* thread control blocks are not
teardown_heap ==
  [s \in Stacks |->
     IF s \in dropped /\ rm_heap[s] = "guarded" THEN "leaked" ELSE rm_heap[s]]

\* the teardown that forgets to clear the main context
ResumeMain_keeps_main ==
  /\ cpu = HOST /\ pc = "spawn_from_main" /\ panicked = "none"
  /\ UNUSED_STACK' = null_mut
  /\ heap' = teardown_heap
  /\ CONTEXTS' = <<>>
  /\ MESSAGES' = NULL
  /\ WAITING' = NULL
  /\ ID' = NULL
  /\ pc' = "idle"
  /\ sent' = NoLog
  /\ got' = NoLog
  /\ frame' = [s \in Stacks |-> NoCall]
  /\ ret' = [s \in Stacks |-> Unit]
  /\ user' = [s \in Stacks |-> NoUser]
  /\ UNCHANGED <<CTX_MAIN, cpu, panicked, started, returned, counter, turns>>

\* spawn_from_main, lines 286-298: the host is resumed and clears the globals
ResumeMain ==
  /\ cpu = HOST /\ pc = "spawn_from_main" /\ panicked = "none"
  /\ UNUSED_STACK' = null_mut
  /\ heap' = teardown_heap
  /\ CTX_MAIN' = "None"
  /\ CONTEXTS' = <<>>
  /\ MESSAGES' = NULL
  /\ WAITING' = NULL
  /\ ID' = NULL
  /\ pc' = "idle"
  /\ sent' = NoLog
  /\ got' = NoLog
  /\ frame' = [s \in Stacks |-> NoCall]
  /\ ret' = [s \in Stacks |-> Unit]
  /\ user' = [s \in Stacks |-> NoUser]
  /\ UNCHANGED <<cpu, panicked, started, returned, counter, turns>>

\* ---------------------------------------------------------------- the programs
\* a stack_size that meets the caller's contract: a guard page and a page
ValidStackSize == 2 * PAGE_SIZE

RECURSIVE LenSum(_, _)
LenSum(log, keys) ==
  IF keys = {} THEN 0
  ELSE LET k == CHOOSE x \in keys : TRUE
       IN  Len(log[k]) + LenSum(log, keys \ {k})

\* send calls of the current run; the k-th send carries the payload k, so that
\* every message of a run differs from every other
SentTotal == LenSum(sent, IdSpace)

\* the host program: main calls spawn_from_main, again after it has returned
HostSpawnFromMain ==
  /\ cpu = HOST /\ pc = "idle" /\ panicked = "none"
  /\ FreshStacks # {}
  /\ spawn_from_main("any", ValidStackSize)
  /\ UNCHANGED <<user, counter, turns>>

\* an arbitrary entry function: any runtime call, in any order, or its return
InAny == InUser /\ user[cpu].at = "any"

UserSpawn ==
  /\ InAny
  /\ FreshStacks # {}
  /\ spawn("any", ValidStackSize)
  /\ UNCHANGED <<user, counter, turns>>

UserSchedule ==
  /\ InAny
  /\ schedule_call
  /\ UNCHANGED <<user, counter, turns>>

UserSend ==
  /\ InAny
  /\ SentTotal < MaxSends
  /\ \E key \in random : send(key, SentTotal + 1)
  /\ UNCHANGED <<user, counter, turns>>

UserRecv ==
  /\ InAny
  /\ recv
  /\ UNCHANGED <<user, counter, turns>>

UserReturn ==
  /\ InAny
  /\ entry_return
  /\ user' = [user EXCEPT ![cpu] = NoUser]
  /\ UNCHANGED <<counter, turns>>

UserSpawnFromMain ==
  /\ InAny
  /\ spawn_from_main("any", ValidStackSize)
  /\ UNCHANGED <<user, counter, turns>>

\* ---------------------------------------------------------------- stack sizes
\* programs that pass any stack_size: the host calls spawn_from_main, the
\* entry function spawns, yields and returns
HostSpawnSized ==
  /\ cpu = HOST /\ pc = "idle" /\ panicked = "none"
  /\ FreshStacks # {}
  /\ \E stack_size \in StackSizes : spawn_from_main("sized", stack_size)
  /\ UNCHANGED <<user, counter, turns>>

InSized == InUser /\ user[cpu].at = "sized"

SizedSpawn ==
  /\ InSized
  /\ FreshStacks # {}
  /\ \E stack_size \in StackSizes : spawn("sized", stack_size)
  /\ UNCHANGED <<user, counter, turns>>

SizedSchedule ==
  /\ InSized
  /\ schedule_call
  /\ UNCHANGED <<user, counter, turns>>

SizedReturn ==
  /\ InSized
  /\ entry_return
  /\ user' = [user EXCEPT ![cpu] = NoUser]
  /\ UNCHANGED <<counter, turns>>

\* ---------------------------------------------------------------- lifetimes
\* programs in which every send precedes the creation of every receiver: the
\* first thread sends to any identities while it is alone, then only spawns
\* receivers and returns; a receiver calls recv and returns
HostLifetime ==
  /\ cpu = HOST /\ pc = "idle" /\ panicked = "none"
  /\ FreshStacks # {}
  /\ spawn_from_main("sender", ValidStackSize)
  /\ UNCHANGED <<user, counter, turns>>

\* the first thread, before (i = 0) and after (i = 1) its first spawn
InSender == InUser /\ user[cpu].at = "sender"
InReceiver == InUser /\ user[cpu].at = "receiver"

SenderSend ==
  /\ InSender /\ user[cpu].i = 0
  /\ SentTotal < MaxSends
  /\ \E key \in random : send(key, SentTotal + 1)
  /\ UNCHANGED <<user, counter, turns>>

SenderSpawn ==
  /\ InSender
  /\ FreshStacks # {}
  /\ spawn("receiver", ValidStackSize)
  /\ user' = [user EXCEPT ![cpu].i = 1]
  /\ UNCHANGED <<counter, turns>>

SenderReturn ==
  /\ InSender /\ user[cpu].i = 1
  /\ entry_return
  /\ user' = [user EXCEPT ![cpu] = NoUser]
  /\ UNCHANGED <<counter, turns>>

ReceiverRecv ==
  /\ InReceiver
  /\ recv
  /\ UNCHANGED <<user, counter, turns>>

ReceiverReturn ==
  /\ InReceiver
  /\ entry_return
  /\ user' = [user EXCEPT ![cpu] = NoUser]
  /\ UNCHANGED <<counter, turns>>

\* ---------------------------------------------------------------- ping-pong
\* the identity of the thread that runs entry function func
IdOf(func) ==
  LET inq == {i \in 1..Len(CONTEXTS) : CONTEXTS[i].entry = func}
      inw == {k \in DOMAIN Deref(WAITING) : Deref(WAITING)[k].entry = func}
  IN  IF inq # {} THEN CONTEXTS[CHOOSE i \in inq : TRUE].id
      ELSE IF inw # {} THEN CHOOSE k \in inw : TRUE
      ELSE 0

At(s, where) == [user EXCEPT ![s].at = where]

\* the host program of the ping-pong run: one call of spawn_from_main
HostPingPong ==
  /\ cpu = HOST /\ pc = "idle" /\ panicked = "none"
  /\ \A s \in Stacks : heap[s] = "free"
  /\ spawn_from_main("pingA", ValidStackSize)
  /\ UNCHANGED <<user, counter, turns>>

\* thread A: id = spawn(B); N times { counter += 1; send(id, _); recv() }
PingA ==
  /\ InUser
  /\ \/ /\ user[cpu].at = "pingA"
        /\ spawn("pingB", ValidStackSize)
        /\ user' = At(cpu, "a_id")
        /\ UNCHANGED <<counter, turns>>
     \/ /\ user[cpu].at = "a_id"
        /\ user' = [user EXCEPT ![cpu].at = "a_inc", ![cpu].peer = ret[cpu].val]
        /\ UNCHANGED <<CTX_MAIN, UNUSED_STACK, CONTEXTS, ID, MESSAGES, WAITING,
                       cpu, pc, panicked, heap, frame, ret, started, returned,
                       sent, got, counter, turns>>
     \/ /\ user[cpu].at = "a_inc"
        /\ user[cpu].i < turns
        /\ counter' = counter + 1
        /\ user' = At(cpu, "a_send")
        /\ UNCHANGED <<CTX_MAIN, UNUSED_STACK, CONTEXTS, ID, MESSAGES, WAITING,
                       cpu, pc, panicked, heap, frame, ret, started, returned,
                       sent, got, turns>>
     \/ /\ user[cpu].at = "a_send"
        /\ send(user[cpu].peer, SentTotal + 1)
        /\ user' = At(cpu, "a_recv")
        /\ UNCHANGED <<counter, turns>>
     \/ /\ user[cpu].at = "a_recv"
        /\ recv
        /\ user' = [user EXCEPT ![cpu].at = "a_inc", ![cpu].i = @ + 1]
        /\ UNCHANGED <<counter, turns>>
     \/ /\ user[cpu].at = "a_inc"
        /\ user[cpu].i >= turns
        /\ entry_return
        /\ user' = [user EXCEPT ![cpu] = NoUser]
        /\ UNCHANGED <<counter, turns>>

\* thread B: N times { recv(); counter += 1; send(A, _) }
PingB ==
  /\ InUser
  /\ \/ /\ user[cpu].at = "pingB"
        /\ user' = [user EXCEPT ![cpu].at = "b_recv", ![cpu].peer = IdOf("pingA")]
        /\ UNCHANGED <<CTX_MAIN, UNUSED_STACK, CONTEXTS, ID, MESSAGES, WAITING,
                       cpu, pc, panicked, heap, frame, ret, started, returned,
                       sent, got, counter, turns>>
     \/ /\ user[cpu].at = "b_recv"
        /\ user[cpu].i < turns
        /\ recv
        /\ user' = At(cpu, "b_inc")
        /\ UNCHANGED <<counter, turns>>
     \/ /\ user[cpu].at = "b_inc"
        /\ counter' = counter + 1
        /\ user' = At(cpu, "b_send")
        /\ UNCHANGED <<CTX_MAIN, UNUSED_STACK, CONTEXTS, ID, MESSAGES, WAITING,
                       cpu, pc, panicked, heap, frame, ret, started, returned,
                       sent, got, turns>>
     \/ /\ user[cpu].at = "b_send"
        /\ send(user[cpu].peer, SentTotal + 1)
        /\ user' = [user EXCEPT ![cpu].at = "b_recv", ![cpu].i = @ + 1]
        /\ UNCHANGED <<counter, turns>>
     \/ /\ user[cpu].at = "b_recv"
        /\ user[cpu].i >= turns
        /\ entry_return
        /\ user' = [user EXCEPT ![cpu] = NoUser]
        /\ UNCHANGED <<counter, turns>>

\* ---------------------------------------------------------------- specification
Init ==
  /\ CTX_MAIN = "None"
  /\ UNUSED_STACK = null_mut
  /\ CONTEXTS = <<>>
  /\ ID = NULL
  /\ MESSAGES = NULL
  /\ WAITING = NULL
  /\ cpu = HOST
  /\ pc = "idle"
  /\ panicked = "none"
  /\ heap = [s \in Stacks |-> "free"]
  /\ frame = [s \in Stacks |-> NoCall]
  /\ ret = [s \in Stacks |-> Unit]
  /\ started = [s \in Stacks |-> 0]
  /\ returned = [s \in Stacks |-> 0]
  /\ sent = NoLog
  /\ got = NoLog
  /\ user = [s \in Stacks |-> NoUser]
  /\ counter = 0
  /\ turns = 0

Next ==
  \/ HostSpawnFromMain
  \/ ResumeMain
  \/ EntryPoint
  \/ ResumeSchedule
  \/ ResumeRecv
  \/ UserSpawn
  \/ UserSchedule
  \/ UserSend
  \/ UserRecv
  \/ UserReturn
  \/ UserSpawnFromMain

Spec == Init /\ [][Next]_vars

\* the processor keeps executing: the running code takes its next step
Progress == WF_vars(Next)

\* Spec for programs in which a thread that keeps being scheduled keeps calling
\* recv
SpecReceives ==
  /\ Init /\ [][Next]_vars
  /\ Progress
  /\ \A s \in Stacks : SF_vars(UserRecv /\ cpu = s)

\* Spec for programs in which every entry function returns after finitely many
\* steps whenever it is scheduled
SpecReturns ==
  /\ Init /\ [][Next]_vars
  /\ Progress
  /\ \A s \in Stacks : SF_vars(UserReturn /\ cpu = s)

\* the runs of the programs that pass any stack_size
NextStackSize ==
  \/ HostSpawnSized
  \/ ResumeMain
  \/ EntryPoint
  \/ ResumeSchedule
  \/ SizedSpawn
  \/ SizedSchedule
  \/ SizedReturn

SpecStackSize == Init /\ [][NextStackSize]_vars

\* the runs of the programs that send before they create receivers; no
\* receiver is ever woken, so no thread resumes inside recv
NextLifetime ==
  \/ HostLifetime
  \/ ResumeMain
  \/ EntryPoint
  \/ ResumeSchedule
  \/ SenderSend
  \/ SenderSpawn
  \/ SenderReturn
  \/ ReceiverRecv
  \/ ReceiverReturn

SpecLifetime == Init /\ [][NextLifetime]_vars

\* the ping-pong run, for every N in 1..MaxTurns
InitPingPong ==
  /\ CTX_MAIN = "None"
  /\ UNUSED_STACK = null_mut
  /\ CONTEXTS = <<>>
  /\ ID = NULL
  /\ MESSAGES = NULL
  /\ WAITING = NULL
  /\ cpu = HOST
  /\ pc = "idle"
  /\ panicked = "none"
  /\ heap = [s \in Stacks |-> "free"]
  /\ frame = [s \in Stacks |-> NoCall]
  /\ ret = [s \in Stacks |-> Unit]
  /\ started = [s \in Stacks |-> 0]
  /\ returned = [s \in Stacks |-> 0]
  /\ sent = NoLog
  /\ got = NoLog
  /\ user = [s \in Stacks |-> NoUser]
  /\ counter = 0
  /\ turns \in 1..MaxTurns

NextPingPong ==
  \/ HostPingPong
  \/ ResumeMain
  \/ EntryPoint
  \/ ResumeSchedule
  \/ ResumeRecv
  \/ PingA
  \/ PingB

SpecPingPong ==
  InitPingPong /\ [][NextPingPong]_vars /\ WF_vars(NextPingPong)

\* ---------------------------------------------------------------- claims
\* the thread control blocks the run queue and the waiting set hold
Waiters == IF WAITING = NULL THEN EmptyMap ELSE Deref(WAITING)
QueueIdx == 1..Len(CONTEXTS)
WaitKeys == DOMAIN Waiters
Mailbox(key) ==
  IF MESSAGES # NULL /\ key \in DOMAIN Deref(MESSAGES)
    THEN Deref(MESSAGES)[key] ELSE <<>>

\* how many thread control blocks of the run queue / waiting set sit on stack s
InQueue(s) == Cardinality({i \in QueueIdx : CONTEXTS[i].stack = s})
InWaiting(s) == Cardinality({k \in WaitKeys : Waiters[k].stack = s})

\* the threads that were created and whose entry function has not returned
Unfinished == {s \in Stacks : heap[s] = "guarded" /\ returned[s] = 0}

\* the thread control blocks whose registers are on the processor
Executing ==
  Cardinality({i \in QueueIdx : ~CONTEXTS[i].saved})
    + Cardinality({k \in WaitKeys : ~Waiters[k].saved})

\* a block that is suspended (inside schedule or recv) or has not started
Suspended(c) ==
  /\ c.saved
  /\ c.regs \in {"entry_point", "schedule", "recv"}
  /\ (c.regs = "entry_point") <=> (started[c.stack] = 0)

\* one green thread has the processor, every other one is suspended or new,
\* and the host is suspended in the main context
OneGreenThreadRuns ==
  /\ cpu # HOST
  /\ CTX_MAIN = "spawn_from_main"
  /\ Executing = 1
  /\ CONTEXTS # <<>>
  /\ ~Head(CONTEXTS).saved
  /\ Head(CONTEXTS).stack = cpu
  /\ \A i \in QueueIdx : i > 1 => Suspended(CONTEXTS[i])
  /\ \A k \in WaitKeys : Suspended(Waiters[k])

\* C1, as claimed: in every state between spawn_from_main's first switch and its
\* return, exactly one green thread executes, the others are suspended or not
\* started, and the host is suspended in the main context.
C1_BetweenSwitchAndReturn ==
  (CTX_MAIN # "None" /\ panicked = "none") => OneGreenThreadRuns

\* C1, amended: the same in every state between the first switch and the switch
\* back to the main context, that is while the run queue is not empty; from
\* that switch to the return the host executes the teardown and no green
\* thread executes.
C1_OneGreenThreadWhileQueued ==
  /\ (CTX_MAIN # "None" /\ CONTEXTS # <<>> /\ panicked = "none")
       => OneGreenThreadRuns
  /\ (CTX_MAIN # "None" /\ CONTEXTS = <<>> /\ panicked = "none")
       => (cpu = HOST /\ pc = "spawn_from_main" /\ Executing = 0)

C1_Witness ==
  /\ Len(CONTEXTS) >= 2
  /\ WaitKeys # {}
  /\ pc = "user"
  /\ \E i \in QueueIdx : CONTEXTS[i].regs = "schedule" /\ CONTEXTS[i].saved

\* C2: every live thread control block is in exactly one of the run queue and
\* the waiting set, once, and no two live blocks have the same identity.
C2_ExactlyOneHolder ==
  /\ \A s \in Stacks : InQueue(s) + InWaiting(s) <= 1
  /\ (CTX_MAIN # "None" /\ panicked = "none")
       => \A s \in Unfinished : InQueue(s) + InWaiting(s) = 1
  /\ \A i, j \in QueueIdx : i # j => CONTEXTS[i].id # CONTEXTS[j].id
  /\ \A i \in QueueIdx : \A k \in WaitKeys : CONTEXTS[i].id # Waiters[k].id
  /\ \A k, l \in WaitKeys : k # l => Waiters[k].id # Waiters[l].id

C2_Witness ==
  /\ Len(CONTEXTS) >= 2
  /\ WaitKeys # {}
  /\ \E k \in IdSpace : Len(got[k]) >= 1

\* C3, as claimed: every entry function is started once, never twice, and has
\* returned by the time spawn_from_main returns to the host.
C3_EntryRunsToCompletionOnce ==
  /\ \A s \in Stacks : started[s] <= 1 /\ returned[s] <= started[s]
  /\ (cpu = HOST /\ pc = "idle")
       => \A s \in Stacks : heap[s] # "free" => started[s] = 1 /\ returned[s] = 1

Increasing(seq) == \A i, j \in 1..Len(seq) : i < j => seq[i] < seq[j]

\* C4: per identity, messages are received in the order they were sent (the
\* k-th send of a run carries the payload k, so send order is payload order):
\* what an identity has received, followed by what is still in its mailbox, is
\* in send order, and what it has received is the first of what was sent to it.
C4_MailboxFifo ==
  \A key \in IdSpace :
    /\ Increasing(got[key] \o Mailbox(key))
    /\ Len(got[key]) <= Len(sent[key])
    /\ \A i \in 1..Len(got[key]) : got[key][i] = sent[key][i]

C4_Witness ==
  \E key \in IdSpace : Len(got[key]) >= 2 /\ Len(CONTEXTS) >= 2

\* the identity of the live thread on stack s, and its n-th message
IdentityOf(s) ==
  {CONTEXTS[i].id : i \in {x \in QueueIdx : CONTEXTS[x].stack = s}}
    \cup {Waiters[k].id : k \in {x \in WaitKeys : Waiters[x].stack = s}}

Owed(s, n) ==
  \E k \in IdentityOf(s) : Len(sent[k]) >= n /\ Len(got[k]) < n

Settled(s, n) ==
  \/ \E k \in IdentityOf(s) : Len(got[k]) >= n
  \/ returned[s] >= 1
  \/ panicked # "none"

\* C5: a message sent to the identity of a live thread that keeps calling recv
\* is eventually returned by one of that thread's recv calls: the n-th message
\* of the identity of the thread on stack s, once sent, is received, unless the
\* thread's entry function returns or the process panics first.
C5_SentIsEventuallyReceived ==
  \A s \in Stacks : \A n \in 1..MaxSends : Owed(s, n) ~> Settled(s, n)

C5_Witness ==
  \E s \in Stacks :
    /\ \E k \in IdentityOf(s) : Len(got[k]) >= 2
    /\ returned[s] = 0
    /\ ret[s].tag = "Some"
    /\ frame[s].call = "none"

\* a recv on an empty mailbox: alone in the run queue it panics and moves
\* nothing, otherwise it moves the caller to the waiting set
C6_RecvStep ==
  (UserRecv /\ CONTEXTS # <<>> /\ Mailbox(Head(CONTEXTS).id) = <<>>) =>
     IF Len(CONTEXTS) = 1
       THEN /\ panicked' = "deadlock"
            /\ CONTEXTS' = CONTEXTS /\ WAITING' = WAITING
            /\ MESSAGES' = MESSAGES
       ELSE /\ panicked' = "none"
            /\ Head(CONTEXTS).id \in DOMAIN Deref(WAITING')
            /\ Deref(WAITING')[Head(CONTEXTS).id].stack = cpu
            /\ \A i \in 1..Len(CONTEXTS') : CONTEXTS'[i].stack # cpu

\* C6: when every runnable thread calls recv with nothing sent, the earlier
\* callers move to the waiting set and the last one, alone in the run queue
\* with an empty mailbox, panics with "deadlock" instead of hanging: whenever
\* the process has panicked so, every other unfinished thread is waiting.
C6_DeadlockPanics ==
  /\ [][C6_RecvStep]_vars
  /\ [](panicked = "deadlock" =>
          /\ Len(CONTEXTS) = 1
          /\ Mailbox(Head(CONTEXTS).id) = <<>>
          /\ \A s \in Unfinished \ {cpu} : InWaiting(s) = 1)

C6_Witness == panicked = "deadlock" /\ Cardinality(WaitKeys) >= 2

\* C7, as claimed: the run queue is not empty, and the host does not run, while
\* a green thread (runnable, or blocked in the waiting set) is unfinished.
C7_HostBlockedWhileUnfinished ==
  (Unfinished # {} /\ panicked = "none") => (CONTEXTS # <<>> /\ cpu # HOST)

\* the return that empties the run queue switches to the main context
C8_LastReturnSwitchesToMain ==
  (UserReturn /\ CONTEXTS' = <<>>) => (cpu' = HOST /\ pc' = "spawn_from_main")

\* C8: a run whose entry functions all return ends with spawn_from_main's
\* return: when the last entry function returns and empties the run queue the
\* trampoline switches to the main context, and the host then returns, unless
\* a thread has panicked (a recv deadlock, a nested spawn_from_main).
C8_RunReturns ==
  /\ [][C8_LastReturnSwitchesToMain]_vars
  /\ (CTX_MAIN # "None") ~>
        (\/ CTX_MAIN = "None" /\ cpu = HOST /\ pc = "idle"
         \/ panicked \in {"deadlock", "spawn_from_main is called twice"})

C8_Witness ==
  /\ cpu = HOST /\ pc = "idle" /\ CTX_MAIN = "None"
  /\ Cardinality({s \in Stacks : returned[s] = 1}) >= 2

\* C9: when spawn_from_main has returned, every global is cleared, whatever the
\* threads did, and the host's next spawn_from_main call is no double bootstrap.
C9_ClearedOnReturn ==
  /\ (cpu = HOST /\ pc = "idle") =>
       /\ CTX_MAIN = "None"
       /\ CONTEXTS = <<>>
       /\ MESSAGES = NULL
       /\ WAITING = NULL
       /\ ID = NULL
       /\ UNUSED_STACK = null_mut
  /\ cpu = HOST => panicked = "none"

C9_Witness ==
  /\ cpu # HOST /\ pc = "user"
  /\ \E s \in Stacks : heap[s] = "leaked" /\ started[s] = 1 /\ returned[s] = 0
  /\ \E s \in Stacks : heap[s] = "freed"

PingPongDone == cpu = HOST /\ pc = "idle" /\ heap[1] # "free"

C10_Turns ==
  /\ panicked = "none"
  /\ PingPongDone => counter = 2 * turns
  /\ \A s \in Stacks :
       /\ user[s].at = "a_send" => counter = 2 * user[s].i + 1
       /\ user[s].at = "b_send" => counter = 2 * user[s].i + 2

\* C10: the ping-pong run ends, without a panic, with the counter at 2 * N, for
\* every N in 1..MaxTurns; the increments alternate: A's i-th makes the counter
\* 2i - 1, B's i-th makes it 2i.
C10_PingPong == []C10_Turns /\ <>PingPongDone

C10_Witness == PingPongDone /\ turns = 3 /\ counter = 6

\* the identities of the live threads: those of the run queue and waiting set
LiveIds ==
  {CONTEXTS[i].id : i \in QueueIdx} \cup {Waiters[k].id : k \in WaitKeys}

\* a spawn step hands out an identity that is neither in the identity set nor
\* the identity of a live thread, inserts it, and gives it to one new block
C11_SpawnStep ==
  (UserSpawn /\ panicked' = "none") =>
     \E id \in IdSpace :
       /\ id \notin Deref(ID)
       /\ id \notin LiveIds
       /\ Deref(ID') = Deref(ID) \cup {id}
       /\ Cardinality({i \in 1..Len(CONTEXTS') : CONTEXTS'[i].id = id}) = 1
       /\ Len(CONTEXTS') = Len(CONTEXTS) + 1

\* C11: N spawn calls give N distinct identities while all are live: get_id
\* never returns an identity that is in the identity set, the identity set is
\* the set of the live threads' identities, and so the identity a spawn hands
\* out differs from that of every thread live at the time of the spawn.
C11_DistinctLiveIdentities ==
  /\ [][C11_SpawnStep]_vars
  /\ []((ID # NULL /\ panicked = "none") =>
          /\ Deref(ID) = LiveIds
          /\ Cardinality(LiveIds) = Len(CONTEXTS) + Cardinality(WaitKeys))

C11_Witness ==
  /\ ID # NULL /\ Cardinality(Deref(ID)) = 3
  /\ \E s \in Stacks : ret[s].tag = "id" /\ ret[s].val \in Deref(ID)
  /\ WaitKeys # {}

\* a spawn_from_main call: inside a green thread it panics and leaves the
\* globals alone; by the host, after the previous call returned, it does not
C12_CallStep ==
  /\ UserSpawnFromMain =>
       /\ CTX_MAIN # "None"
       /\ panicked' = "spawn_from_main is called twice"
       /\ UNCHANGED <<CONTEXTS, WAITING, MESSAGES, ID, CTX_MAIN, UNUSED_STACK>>
  /\ HostSpawnFromMain =>
       /\ panicked' = "none"
       /\ CTX_MAIN' # "None"
       /\ Len(CONTEXTS') = 1

\* C12: spawn_from_main panics whenever the runtime is initialized, which it
\* is whenever a green thread runs, and then changes none of the run queue,
\* waiting set, mailbox, identity set, main context and retired-stack slot; a
\* call made after a previous call has returned does not panic.
C12_DoubleBootstrapPanics ==
  /\ [][C12_CallStep]_vars
  /\ [](cpu # HOST => CTX_MAIN # "None")
  /\ []((cpu = HOST /\ pc = "idle") => CTX_MAIN = "None")

\* the panic in a second run (a waiter of the first run was abandoned)
C12_Witness ==
  /\ cpu # HOST /\ panicked = "spawn_from_main is called twice"
  /\ \E s \in Stacks : heap[s] = "leaked" /\ started[s] = 1 /\ returned[s] = 0

\* the stack in the retired-stack slot has no owner left and is not in use
Retired(s) ==
  /\ returned[s] = 1
  /\ InQueue(s) = 0
  /\ InWaiting(s) = 0
  /\ heap[s] = "guarded"

\* a step in which rm_unused_stack releases the stack of the slot
C13_FreeStep ==
  (/\ UNUSED_STACK # null_mut
   /\ heap'[UNUSED_STACK] # heap[UNUSED_STACK]
   /\ heap'[UNUSED_STACK] \in {"freed", "double_free"}) =>
     /\ Retired(UNUSED_STACK)
     /\ cpu # UNUSED_STACK
     /\ cpu' # UNUSED_STACK
     /\ heap'[UNUSED_STACK] = "freed"
     /\ UNUSED_STACK' = null_mut

\* C13: a stack is deallocated only after control has switched off it and
\* never by its owner: the stack rm_unused_stack frees belongs to a thread
\* whose entry function has returned, is not the stack the processor is on nor
\* that of a block in the run queue or waiting set, and was not freed before.
C13_FreedAfterSwitchOff ==
  /\ [][C13_FreeStep]_vars
  /\ [](\A s \in Stacks : heap[s] # "double_free")
  /\ []((UNUSED_STACK # null_mut /\ panicked = "none") =>
          Retired(UNUSED_STACK) /\ cpu # UNUSED_STACK)
  /\ [](\A s \in Stacks : heap[s] = "freed" => returned[s] = 1)

C13_Witness ==
  /\ cpu # HOST /\ pc = "user" /\ panicked = "none"
  /\ \E s \in Stacks : heap[s] = "freed" /\ s # cpu
  /\ UNUSED_STACK = null_mut
  /\ Len(CONTEXTS) >= 2

\* the return of an entry function finds the retired-stack slot empty
C14_StoreStep == UserReturn => UNUSED_STACK = null_mut

\* C14, as claimed: whenever a terminating thread stores its stack in the
\* retired-stack slot the slot is empty, so that no pending stack of an earlier
\* terminated thread is overwritten and no stack loses its only reference.
C14_SlotEmptyAtStore ==
  /\ [][C14_StoreStep]_vars
  /\ [](\A s \in Stacks : ~(heap[s] = "leaked" /\ returned[s] = 1))

\* C15, as claimed: every stack allocated for a green thread has been
\* deallocated, once, by the time spawn_from_main has returned.
C15_AllStacksFreedAtReturn ==
  /\ \A s \in Stacks : heap[s] # "double_free"
  /\ (cpu = HOST /\ pc = "idle") =>
       \A s \in Stacks : heap[s] \in {"free", "freed"}

\* the other globals a schedule call leaves alone
C16_Frame ==
  UNCHANGED <<WAITING, MESSAGES, ID, CTX_MAIN, UNUSED_STACK, heap, panicked>>

\* a schedule call with two or more queued: round robin
C16_ScheduleStep ==
  (UserSchedule /\ Len(CONTEXTS) >= 2) =>
     LET n == Len(CONTEXTS)
     IN  /\ Len(CONTEXTS') = n
         /\ CONTEXTS'[n] = set_context(Head(CONTEXTS), "schedule")
         /\ CONTEXTS'[n].stack = cpu
         /\ \A i \in 1..(n - 1) :
              /\ CONTEXTS'[i].stack = CONTEXTS[i + 1].stack
              /\ CONTEXTS'[i].id = CONTEXTS[i + 1].id
              /\ i > 1 => CONTEXTS'[i] = CONTEXTS[i + 1]
         /\ cpu' = CONTEXTS'[1].stack
         /\ cpu' # cpu
         /\ pc' = CONTEXTS[2].regs
         /\ ~CONTEXTS'[1].saved
         /\ C16_Frame

\* C16: schedule called by the running thread with two or more blocks in the
\* run queue moves the caller's block from the front to the back, keeps the
\* order of the others, and switches to the new front, which is not the caller.
C16_RoundRobin == [][C16_ScheduleStep]_vars

C16_Witness ==
  /\ Len(CONTEXTS) = 3 /\ pc = "user" /\ panicked = "none"
  /\ CONTEXTS[3].regs = "schedule" /\ CONTEXTS[3].saved
  /\ frame[CONTEXTS[3].stack].call = "schedule"
  /\ CONTEXTS[2].regs = "schedule" /\ CONTEXTS[2].saved

\* a schedule call with one block queued returns at once
C17_ScheduleStep ==
  (UserSchedule /\ Len(CONTEXTS) = 1) =>
     /\ UNCHANGED <<CONTEXTS, WAITING, MESSAGES, ID, CTX_MAIN, UNUSED_STACK>>
     /\ UNCHANGED <<heap, cpu, pc, panicked, started, returned>>
     /\ frame'[cpu] = NoCall
     /\ ret'[cpu] = Unit

\* C17: schedule called when the run queue has a single member is a no-op:
\* the caller keeps running and the run queue, waiting set, mailbox, identity
\* set, main context and retired-stack slot are unchanged; no stack is freed.
C17_SingleMemberNoOp == [][C17_ScheduleStep]_vars

\* the only runnable thread is back in its entry function after a runtime call
\* that returned unit, with other threads waiting and a stack already freed
C17_Witness ==
  /\ InAny /\ Len(CONTEXTS) = 1
  /\ ret[cpu] = Unit /\ frame[cpu] = NoCall
  /\ WaitKeys # {}
  /\ \E s \in Stacks : heap[s] = "freed"

\* a spawn call up to its switch: one new block with a fresh identity on a
\* fresh guarded stack is behind every block that was queued, the caller,
\* which has yielded, is behind it, and the caller keeps the identity
C18_SpawnStep ==
  (UserSpawn /\ panicked' = "none") =>
     LET n == Len(CONTEXTS)
         new == CONTEXTS'[n]
     IN  /\ Len(CONTEXTS') = n + 1
         /\ new.id \notin Deref(ID)
         /\ Deref(ID') = Deref(ID) \cup {new.id}
         /\ heap[new.stack] = "free" /\ heap'[new.stack] = "guarded"
         /\ new.regs = Registers_new
         /\ started[new.stack] = 0
         /\ \A i \in 1..(n - 1) : CONTEXTS'[i].stack = CONTEXTS[i + 1].stack
         /\ CONTEXTS'[n + 1] = set_context(Head(CONTEXTS), "schedule")
         /\ cpu' = CONTEXTS'[1].stack /\ cpu' # cpu
         /\ frame'[cpu] = InCall("spawn", new.id)
         /\ UNCHANGED <<WAITING, MESSAGES, CTX_MAIN, UNUSED_STACK>>

\* the identity a suspended spawn holds is kept until the call returns it
C18_ReturnStep ==
  \A s \in Stacks :
    (frame[s].call = "spawn" /\ ~ResumeMain) =>
       IF s = cpu /\ ResumeSchedule
         THEN ret'[s] = RetId(frame[s].arg) /\ pc' = "user"
         ELSE frame'[s] = frame[s]

\* C18: spawn called by a green thread creates one thread control block with a
\* fresh identity, appends it behind every block already in the run queue,
\* yields through schedule, and returns the identity of exactly that block.
C18_SpawnAppendsAndReturnsId ==
  /\ [][C18_SpawnStep]_vars
  /\ [][C18_ReturnStep]_vars

C18_Witness ==
  /\ InAny /\ ret[cpu].tag = "id"
  /\ Len(CONTEXTS) = 3
  /\ CONTEXTS[3].id = ret[cpu].val
  /\ frame[CONTEXTS[3].stack].call = "spawn"
  /\ CONTEXTS[2].id = frame[CONTEXTS[3].stack].arg
  /\ CONTEXTS[2].regs = Registers_new

\* the stacks of the blocks of a run queue, in order
StacksOf(q) == [i \in 1..Len(q) |-> q[i].stack]

\* what schedule does to the run queue q its caller (on stack cpu) left:
\* nothing when q has one member, round robin and a switch otherwise
Yielded(q) ==
  IF Len(q) = 1
    THEN /\ CONTEXTS' = q
         /\ cpu' = cpu /\ pc' = pc
    ELSE /\ StacksOf(CONTEXTS') = StacksOf(Append(Tail(q), Head(q)))
         /\ \A i \in 2..Len(q) : CONTEXTS'[i - 1].id = q[i].id
         /\ cpu' = q[2].stack /\ pc' = q[2].regs
         /\ CONTEXTS'[Len(q)].regs = "schedule"

\* a send call up to its switch or return
C19_SendStep ==
  UserSend =>
    \E key \in IdSpace :
      /\ sent' = [sent EXCEPT ![key] = Append(@, SentTotal + 1)]
      /\ Deref(MESSAGES')[key] = Append(Mailbox(key), SentTotal + 1)
      /\ DOMAIN Deref(MESSAGES') = DOMAIN Deref(MESSAGES) \cup {key}
      /\ \A k \in DOMAIN Deref(MESSAGES) \ {key} :
           Deref(MESSAGES')[k] = Deref(MESSAGES)[k]
      /\ IF key \in WaitKeys
           THEN /\ Deref(WAITING') = [k \in WaitKeys \ {key} |-> Waiters[k]]
                /\ Yielded(Append(CONTEXTS, Waiters[key]))
           ELSE /\ WAITING' = WAITING
                /\ Yielded(CONTEXTS)
      /\ panicked' = "none"
      /\ UNCHANGED <<ID, CTX_MAIN, UNUSED_STACK, heap>>

\* C19: send(id, message) appends the message at the tail of id's mailbox,
\* creating it when absent; a thread waiting under id leaves the waiting set
\* for the back of the run queue, otherwise the waiting set and the members of
\* the run queue stay; the sender then performs schedule; send never panics.
C19_SendAppendsAndWakes ==
  /\ [][C19_SendStep]_vars
  /\ [](\A s \in Stacks : frame[s].call = "send" => panicked # "unwrap")

C19_Witness ==
  /\ Len(CONTEXTS) = 2 /\ panicked = "none"
  /\ frame[CONTEXTS[2].stack].call = "send"
  /\ cpu = CONTEXTS[1].stack /\ pc = "recv"
  /\ Mailbox(CONTEXTS[1].id) # <<>>
  /\ \E k \in IdSpace : k \notin Deref(ID) /\ Mailbox(k) # <<>>

\* a recv call by a thread whose mailbox holds a message
C20_RecvStep ==
  (UserRecv /\ CONTEXTS # <<>> /\ Mailbox(Head(CONTEXTS).id) # <<>>) =>
     LET key == Head(CONTEXTS).id
         box == Deref(MESSAGES)[key]
     IN  /\ ret'[cpu] = [tag |-> "Some", val |-> Head(box)]
         /\ got' = [got EXCEPT ![key] = Append(@, Head(box))]
         /\ UNCHANGED <<CONTEXTS, WAITING, ID, CTX_MAIN, UNUSED_STACK, heap>>
         /\ UNCHANGED <<cpu, pc, panicked>>
         /\ Head(CONTEXTS').stack = cpu
         /\ IF Tail(box) = <<>>
              THEN DOMAIN Deref(MESSAGES') = DOMAIN Deref(MESSAGES) \ {key}
              ELSE /\ DOMAIN Deref(MESSAGES') = DOMAIN Deref(MESSAGES)
                   /\ Deref(MESSAGES')[key] = Tail(box)
         /\ \A k \in DOMAIN Deref(MESSAGES) \ {key} :
              Deref(MESSAGES')[k] = Deref(MESSAGES)[k]

\* C20: recv by a thread whose mailbox holds a message returns the head
\* message at once, without a switch: the caller stays at the front, the run
\* queue, waiting set, identity set and the other mailboxes are unchanged, and
\* only the head of the caller's mailbox is removed.
C20_RecvFastPath == [][C20_RecvStep]_vars

\* the first thread of the first run, alone, has received the first of two
\* messages it sent to itself
C20_Witness ==
  /\ InAny /\ Len(CONTEXTS) = 1 /\ WaitKeys = {}
  /\ \A s \in Stacks \ {cpu} : heap[s] = "free"
  /\ ret[cpu].tag = "Some" /\ ret[cpu].val = 1
  /\ Mailbox(Head(CONTEXTS).id) = <<2>>

\* a recv on an empty mailbox with another runnable thread: the caller goes to
\* the waiting set under its identity and the new front gets the processor
C21_BlockStep ==
  (UserRecv /\ Len(CONTEXTS) >= 2 /\ Mailbox(Head(CONTEXTS).id) = <<>>) =>
     LET key == Head(CONTEXTS).id
     IN  /\ DOMAIN Deref(WAITING') = WaitKeys \cup {key}
         /\ Deref(WAITING')[key] = set_context(Head(CONTEXTS), "recv")
         /\ Deref(WAITING')[key].stack = cpu
         /\ \A k \in WaitKeys : Deref(WAITING')[k] = Waiters[k]
         /\ StacksOf(CONTEXTS') = StacksOf(Tail(CONTEXTS))
         /\ cpu' = CONTEXTS[2].stack /\ pc' = CONTEXTS[2].regs
         /\ UNCHANGED <<MESSAGES, ID, panicked>>

\* the resumption of a thread that blocked in recv returns a message
C21_ResumeStep ==
  ResumeRecv =>
    /\ Mailbox(frame[cpu].arg) # <<>>
    /\ ret'[cpu] = [tag |-> "Some", val |-> Head(Mailbox(frame[cpu].arg))]

\* C21: a recv that blocks moves the caller from the run queue to the waiting
\* set under its identity and switches to the new front; whenever the caller
\* is resumed its mailbox is not empty (no other thread can take from it), so
\* the recv returns Some and never None.
C21_BlockedRecvReturnsSome ==
  /\ [][C21_BlockStep]_vars
  /\ [][C21_ResumeStep]_vars
  /\ [](\A i \in QueueIdx :
          (CONTEXTS[i].regs = "recv" /\ CONTEXTS[i].saved /\ panicked = "none")
             => Mailbox(CONTEXTS[i].id) # <<>>)
  /\ [](\A s \in Stacks : ret[s].tag # "None")

\* a thread that blocked in recv has just been resumed, others are queued
C21_Witness ==
  /\ cpu # HOST /\ pc = "recv" /\ panicked = "none"
  /\ frame[cpu] = InCall("recv", Head(CONTEXTS).id)
  /\ Mailbox(Head(CONTEXTS).id) # <<>>
  /\ Len(CONTEXTS) = 3

\* a recv call panics with "deadlock" exactly when the caller's mailbox is
\* empty and the caller is alone in the run queue, and then moves nothing
C22_RecvStep ==
  (UserRecv /\ CONTEXTS # <<>>) =>
     /\ (panicked' = "deadlock") <=>
          (Len(CONTEXTS) = 1 /\ Mailbox(Head(CONTEXTS).id) = <<>>)
     /\ (panicked' = "deadlock") => UNCHANGED <<CONTEXTS, WAITING, MESSAGES>>
     /\ panicked' \in {"none", "deadlock"}

\* no other operation raises the deadlock condition
C22_OnlyRecv == (panicked = "none" /\ panicked' = "deadlock") => UserRecv

\* C22: recv raises the fatal deadlock condition if and only if, at the call,
\* the caller's mailbox is empty and the caller is the only member of the run
\* queue; never when a message is pending for the caller or another thread is
\* runnable; when it raises it, the run queue, waiting set and mailbox are
\* unchanged.
C22_DeadlockIff ==
  /\ [][C22_RecvStep]_vars
  /\ [][C22_OnlyRecv]_vars

\* the deadlock of a thread that has received its own message before, while a
\* message for another identity is still pending
C22_Witness ==
  /\ panicked = "deadlock" /\ Len(CONTEXTS) = 1
  /\ Len(got[Head(CONTEXTS).id]) >= 1
  /\ \E k \in IdSpace : k # Head(CONTEXTS).id /\ Mailbox(k) # <<>>

\* the waiting set after the step, and the thread on stack s still in it
WaitersAfter == IF WAITING' = NULL THEN EmptyMap ELSE Deref(WAITING')
StillWaiting(s) ==
  \E k \in DOMAIN WaitersAfter : WaitersAfter[k].stack = s

\* the step is a send to the identity under which the thread on s waits
SendTo(s) ==
  /\ UserSend
  /\ \E k \in WaitKeys : Waiters[k].stack = s /\ sent'[k] # sent[k]

\* a thread in the waiting set stays there and does not get the processor
\* unless the step is a send to its identity
C23_WaitStep ==
  \A s \in Stacks :
    (InWaiting(s) = 1 /\ ~SendTo(s)) => (StillWaiting(s) /\ cpu' # s)

\* C23, as claimed: a thread placed in the waiting set stays there, and is not
\* run, until some thread calls send with exactly its identity; no other
\* operation takes it out of the waiting set.
C23_WaitsUntilSend == [][C23_WaitStep]_vars

\* what holds of C23: the teardown of spawn_from_main apart, a waiting thread
\* stays in the waiting set and is not run unless the step is a send to it,
\* and that send moves it to the back of the run queue, where the sender's
\* yield leaves it in front of the sender only
C23_WaitsUntilSendOrTeardown ==
  [][(~ResumeMain => C23_WaitStep)
       /\ \A s \in Stacks :
            (InWaiting(s) = 1 /\ SendTo(s)) =>
               CONTEXTS'[Len(CONTEXTS)].stack = s
    ]_vars

\* the contract of stack_size: a positive multiple of the page size that
\* exceeds the one guard page
MeetsContract(stack_size) ==
  /\ stack_size > 0
  /\ stack_size % PAGE_SIZE = 0
  /\ stack_size > PAGE_SIZE

\* C24, as claimed: a call of spawn or spawn_from_main with an invalid
\* stack_size fails fatally, so that no thread control block whose stack has
\* such a size is ever in the run queue or the waiting set.
C24_InvalidSizeIsFatal ==
  /\ \A i \in QueueIdx : MeetsContract(CONTEXTS[i].stack_layout)
  /\ \A k \in WaitKeys : MeetsContract(Waiters[k].stack_layout)

\* the stacks of the live thread control blocks
LiveStacks == {s \in Stacks : InQueue(s) + InWaiting(s) >= 1}

\* C25: the guard page is active for the whole life of a stack: the lowest
\* page of the stack of every thread control block, and of the stack pending
\* in the retired-stack slot, is inaccessible; no stack is ever allocated with
\* an accessible guard page outside Context::new and rm_unused_stack, and none
\* is released with its guard page still inaccessible.
C25_GuardPageActive ==
  /\ \A s \in LiveStacks : heap[s] = "guarded"
  /\ UNUSED_STACK # null_mut => heap[UNUSED_STACK] = "guarded"
  /\ \A s \in Stacks : heap[s] \notin {"allocated", "freed_guarded"}

C25_Witness ==
  /\ cpu # HOST /\ panicked = "none"
  /\ \E s \in Stacks : heap[s] = "freed"
  /\ \E s \in LiveStacks : InWaiting(s) = 1 /\ heap[s] = "guarded"
  /\ heap[cpu] = "guarded"

\* the block recv moves to the waiting set is the caller's, under its identity
C26_RecvStep ==
  (UserRecv /\ WAITING' # WAITING) =>
     \E k \in DOMAIN WaitersAfter \ WaitKeys :
       /\ WaitersAfter[k].stack = cpu
       /\ WaitersAfter[k].id = k
       /\ k = Head(CONTEXTS).id

\* the block entry_point removes is the caller's, and so is the identity
C26_ReturnStep ==
  (UserReturn /\ panicked' = "none") =>
     /\ Head(CONTEXTS).stack = cpu
     /\ CONTEXTS' # <<>> => StacksOf(CONTEXTS') = StacksOf(Tail(CONTEXTS))
     /\ Deref(ID') = Deref(ID) \ {Head(CONTEXTS).id}
     /\ UNUSED_STACK' = cpu

\* C26: the front of the run queue is the current thread: whenever a green
\* thread executes (its entry function, a runtime call it enters, or the
\* termination part of entry_point) its own block is the front of the run
\* queue, so recv reads the caller's identity and entry_point removes the
\* caller's block.
C26_FrontIsCurrent ==
  /\ []((cpu # HOST /\ panicked = "none") =>
          /\ CONTEXTS # <<>>
          /\ Head(CONTEXTS).stack = cpu
          /\ InQueue(cpu) = 1 /\ InWaiting(cpu) = 0)
  /\ [][C26_RecvStep]_vars
  /\ [][C26_ReturnStep]_vars

C26_Witness ==
  /\ InAny /\ Len(CONTEXTS) = 3
  /\ Head(CONTEXTS).stack = cpu /\ cpu = 3
  /\ CONTEXTS[2].regs = "schedule" /\ CONTEXTS[3].regs = "schedule"
  /\ frame[CONTEXTS[3].stack].call = "schedule"

\* the identity set is the set of the live threads' identities, and every
\* waiting block is stored under its own identity
C27_SetIsLive ==
  InUser =>
    /\ Deref(ID) = {CONTEXTS[i].id : i \in QueueIdx} \cup WaitKeys
    /\ \A k \in WaitKeys : Waiters[k].id = k

\* an identity that leaves the identity set is that of the thread that
\* terminates in this step, for the first time
C27_ReleaseStep ==
  \A id \in IdSpace :
    (ID # NULL /\ id \in Deref(ID) /\ (ID' = NULL \/ id \notin Deref(ID'))) =>
       /\ UserReturn
       /\ Head(CONTEXTS).id = id /\ Head(CONTEXTS).stack = cpu
       /\ returned[cpu] = 0 /\ returned'[cpu] = 1

\* C27, as claimed: wherever a green thread executes user code the identity
\* set equals the identities of the blocks of the run queue together with the
\* keys of the waiting set, each key being the identity of its block; and an
\* identity leaves the set only when its own thread terminates, once.
C27_IdentitySetIsLiveSet ==
  /\ []C27_SetIsLive
  /\ [][C27_ReleaseStep]_vars

\* what holds of C27: all of it, the teardown of spawn_from_main apart
C27_ExceptTeardown ==
  /\ []C27_SetIsLive
  /\ [][~ResumeMain => C27_ReleaseStep]_vars

\* the return of an entry function: the caller's block leaves the front of
\* the run queue, its identity the identity set, its stack goes into the
\* retired-stack slot, and control goes to the new front, or, the run queue
\* being empty, to the main context
C28_ReturnStep ==
  (UserReturn /\ panicked' = "none") =>
     LET ctx == Head(CONTEXTS)
         rest == Tail(CONTEXTS)
     IN  /\ ctx.stack = cpu
         /\ Len(CONTEXTS') = Len(rest)
         /\ StacksOf(CONTEXTS') = StacksOf(rest)
         /\ Deref(ID') = Deref(ID) \ {ctx.id}
         /\ UNUSED_STACK' = ctx.stack
         /\ returned'[cpu] = 1
         /\ IF rest # <<>>
              THEN /\ cpu' = Head(rest).stack /\ pc' = Head(rest).regs
                   /\ ~Head(CONTEXTS').saved
              ELSE /\ cpu' = HOST /\ pc' = "spawn_from_main"
         /\ UNCHANGED <<WAITING, MESSAGES, CTX_MAIN>>

\* C28: when an entry function returns, entry_point, with no other thread
\* running in between, removes the thread's own block from the front of the
\* run queue, releases its identity, stores its stack in the retired-stack
\* slot and switches to the new front if there is one; it switches to the main
\* context only if the run queue is then empty; the terminated thread is
\* never resumed afterwards.
C28_Termination ==
  /\ [][C28_ReturnStep]_vars
  /\ [](\A s \in Stacks :
          returned[s] >= 1 =>
            /\ cpu # s
            /\ InQueue(s) = 0 /\ InWaiting(s) = 0
            /\ returned[s] = 1 /\ started[s] = 1)

\* a thread has returned, its stack is pending, and a suspended thread has
\* just been switched to
C28_Witness ==
  /\ UNUSED_STACK # null_mut /\ returned[UNUSED_STACK] = 1
  /\ cpu # HOST /\ pc = "schedule" /\ panicked = "none"
  /\ Len(CONTEXTS) = 2

\* a resumption inside schedule, recv or spawn_from_main frees the pending
\* stack and empties the slot; the first start of a thread touches neither
C29_ResumeStep ==
  /\ (ResumeSchedule \/ ResumeRecv \/ ResumeMain) =>
       /\ UNUSED_STACK' = null_mut
       /\ UNUSED_STACK # null_mut =>
            (heap[UNUSED_STACK] = "guarded" /\ heap'[UNUSED_STACK] = "freed")
  /\ EntryPoint => UNCHANGED <<UNUSED_STACK, heap>>

\* C29: every resumption of a thread suspended in schedule or in a blocking
\* recv, and the host's resumption in spawn_from_main, deallocates the stack
\* pending in the retired-stack slot and empties the slot before any further
\* user code runs; a thread that starts at entry_point reclaims nothing, so a
\* stack is pending under user code only in a thread never suspended so far.
C29_DeferredReclamation ==
  /\ [][C29_ResumeStep]_vars
  /\ []((InUser /\ UNUSED_STACK # null_mut) =>
          /\ Head(CONTEXTS).regs = Registers_new
          /\ heap[UNUSED_STACK] = "guarded")
  /\ []((cpu = HOST /\ pc = "idle") => UNUSED_STACK = null_mut)

\* a thread that started for the first time runs user code while the stack
\* of the thread that returned before it is still pending
C29_Witness ==
  /\ InAny /\ UNUSED_STACK # null_mut
  /\ started[cpu] = 1 /\ Head(CONTEXTS).regs = Registers_new
  /\ returned[UNUSED_STACK] = 1

\* the return of an entry function takes the processor off the thread's stack
C30_ReturnStep == UserReturn => (cpu' # cpu /\ panicked' = "none")

\* C30: the fall-through of the trampoline (panic "entry_point") is
\* unreachable in a run started by spawn_from_main: the main context is
\* present whenever a green thread runs, so a thread that terminates with an
\* empty run queue switches to it, and every return switches away.
C30_NoFallThrough ==
  /\ [](panicked # "entry_point")
  /\ [](cpu # HOST => CTX_MAIN = "spawn_from_main")
  /\ [][C30_ReturnStep]_vars

\* the last thread of a run of three has returned and the host has the
\* processor again, inside spawn_from_main
C30_Witness ==
  /\ cpu = HOST /\ pc = "spawn_from_main" /\ panicked = "none"
  /\ CONTEXTS = <<>> /\ WaitKeys = {}
  /\ \A s \in Stacks : returned[s] = 1

\* a send to the identity of a waiting thread puts the message in its mailbox
\* and the thread in the run queue, out of the waiting set, in one step
C31_SendStep ==
  \A k \in WaitKeys :
    (UserSend /\ sent'[k] # sent[k]) =>
      /\ k \notin DOMAIN WaitersAfter
      /\ \E i \in 1..Len(CONTEXTS') :
           CONTEXTS'[i].id = k /\ CONTEXTS'[i].stack = Waiters[k].stack
      /\ Deref(MESSAGES')[k] = <<SentTotal + 1>>

\* C31: no lost wake-up: while a thread executes user code, the mailbox of
\* the identity of every thread in the waiting set is empty; a send to a
\* waiting thread's identity makes that thread runnable in the step that
\* appends the message.
C31_NoLostWakeUp ==
  /\ [](InUser => \A k \in WaitKeys : Mailbox(k) = <<>>)
  /\ [][C31_SendStep]_vars

\* a send has just woken one waiter, which has the processor and its message
\* and is about to leave recv, while another thread still waits with an empty
\* mailbox
C31_Witness ==
  /\ cpu # HOST /\ pc = "recv" /\ panicked = "none"
  /\ Mailbox(Head(CONTEXTS).id) # <<>>
  /\ \E s \in Stacks : frame[s].call = "send"
  /\ \E k \in WaitKeys : Mailbox(k) = <<>>

\* the messages of a sequence
Range(seq) == {seq[i] : i \in 1..Len(seq)}

\* a message is handed out only by a recv of the thread at the front of the
\* run queue, whose identity is that of the mailbox; it is the head of that
\* mailbox, it was sent to that identity, and no recv returned it before
C32_RecvStep ==
  \A k \in IdSpace :
    (got'[k] # got[k] /\ ~ResumeMain) =>
      /\ UserRecv \/ ResumeRecv
      /\ Head(CONTEXTS).id = k /\ Head(CONTEXTS).stack = cpu
      /\ got'[k] = Append(got[k], Head(Mailbox(k)))
      /\ ret'[cpu] = [tag |-> "Some", val |-> Head(Mailbox(k))]
      /\ Head(Mailbox(k)) \in Range(sent[k])
      /\ \A j \in IdSpace : Head(Mailbox(k)) \notin Range(got[j])
      /\ \A j \in IdSpace \ {k} : Head(Mailbox(k)) \notin Range(sent[j])

\* C32: before teardown messages are neither lost, duplicated nor
\* misdelivered: what was sent to an identity is what its recv calls have
\* returned followed by what its mailbox still holds, whether or not a thread
\* waited for it; a message is returned by at most one recv, and only by a
\* recv of a thread of the identity it was sent to.
C32_MessagesConserved ==
  /\ [](MESSAGES # NULL =>
          \A k \in IdSpace : sent[k] = got[k] \o Mailbox(k))
  /\ [][C32_RecvStep]_vars

\* one message has been received, and another is kept in the mailbox of an
\* identity that no live thread has
C32_Witness ==
  /\ InAny
  /\ \E k \in IdSpace : got[k] # <<>>
  /\ \E k \in IdSpace : k \notin Deref(ID) /\ Mailbox(k) # <<>>

\* the thread control blocks of the state, in the run queue or the waiting set
Blocks == {CONTEXTS[i] : i \in QueueIdx} \cup {Waiters[k] : k \in WaitKeys}

\* a switch to a green thread: its context is at the front of the run queue,
\* and either the thread has never run and starts at entry_point, or it was
\* suspended by set_context, inside schedule or recv, and not resumed since
C33_SwitchStep ==
  (cpu' # cpu /\ cpu' # HOST) =>
    /\ panicked' = "none"
    /\ CONTEXTS' # <<>>
    /\ Head(CONTEXTS').stack = cpu' /\ Head(CONTEXTS').regs = pc'
    /\ ~Head(CONTEXTS').saved
    /\ IF started[cpu'] = 0
         THEN /\ pc' = Registers_new
              /\ \A c \in Blocks : c.stack = cpu' => c.saved
         ELSE /\ pc' \in {"schedule", "recv"}
              /\ \E c \in Blocks : c.stack = cpu' /\ c.saved /\ c.regs = pc'

\* a runtime call of a green thread that does not return at once has switched
\* to a thread other than its caller
C33_CallStep ==
  (UserSchedule \/ UserSend \/ UserSpawn \/ UserRecv) =>
    /\ panicked' # "unwrap"
    /\ pc' \notin {"user", "panic"} => cpu' # cpu

\* C33: every switch has a valid target: the front of the run queue read in
\* schedule, in the blocking path of recv and in entry_point exists, the
\* target of the switch in schedule and recv is not the caller, and the
\* context switched to is that of a thread that never ran or of a thread
\* suspended by set_context and not resumed since.
C33_ValidSwitchTarget ==
  /\ [](panicked # "unwrap")
  /\ [][C33_SwitchStep /\ C33_CallStep]_vars

\* the second thread's spawn has switched to the first thread, suspended in
\* schedule, while the third has not run yet
C33_Witness ==
  /\ cpu # HOST /\ pc = "schedule" /\ panicked = "none"
  /\ Len(CONTEXTS) = 3 /\ ~Head(CONTEXTS).saved
  /\ \E i \in 2..3 : CONTEXTS[i].regs = Registers_new
                        /\ started[CONTEXTS[i].stack] = 0

\* the position in run queue q of the thread on stack s (0 when absent)
PosIn(q, s) ==
  IF \E i \in 1..Len(q) : q[i].stack = s
    THEN CHOOSE i \in 1..Len(q) : q[i].stack = s
    ELSE 0

\* the thread on stack s is suspended in schedule, behind the front
YieldedThread(s) ==
  /\ PosIn(CONTEXTS, s) >= 2
  /\ CONTEXTS[PosIn(CONTEXTS, s)].saved
  /\ CONTEXTS[PosIn(CONTEXTS, s)].regs = "schedule"

\* a thread suspended in schedule keeps its place behind the threads ahead of
\* it: nobody joins them, only the one that has the processor leaves them, by
\* yielding, blocking or returning, and the suspended thread is resumed only
\* when the last of them leaves
C34_QueueStep ==
  \A i \in 2..Len(CONTEXTS) :
    (CONTEXTS[i].saved /\ CONTEXTS[i].regs = "schedule") =>
      LET s == CONTEXTS[i].stack
          p == PosIn(CONTEXTS', s)
          before == {CONTEXTS[j].stack : j \in 1..(i - 1)}
          after == {CONTEXTS'[j].stack : j \in 1..(p - 1)}
      IN  /\ cpu = Head(CONTEXTS).stack
          /\ p >= 1
          /\ after \subseteq before
          /\ after # before =>
               /\ before \ after = {cpu}
               /\ InUser /\ cpu' # cpu
               /\ cpu' = Head(CONTEXTS').stack
          /\ cpu' = s <=> (after = {} /\ before # {})
          /\ after # {} => cpu' \in after

\* C34: round-robin bounded bypass: a thread that suspends in schedule behind
\* X1..Xk is not resumed until each of them has had the processor and has
\* yielded, blocked or terminated; threads spawned or woken afterwards are
\* queued behind it and do not run before it resumes.
C34_BoundedBypass == [][C34_QueueStep]_vars

\* a thread is suspended in schedule behind two others, the first of which is
\* in user code
C34_Witness ==
  /\ InAny /\ Len(CONTEXTS) = 3
  /\ YieldedThread(CONTEXTS[3].stack)
  /\ CONTEXTS[2].saved

\* the thread on stack s is suspended inside send, in the rotation of `after`
Sending(q, f, s) ==
  /\ PosIn(q, s) >= 1
  /\ q[PosIn(q, s)].saved /\ q[PosIn(q, s)].regs = "schedule"
  /\ f[s].call = "send"

\* a send to a waiting thread leaves the receiver queued ahead of the
\* suspended sender, with the message alone in its mailbox
C35_SendStep ==
  \A k \in WaitKeys :
    (UserSend /\ sent'[k] # sent[k]) =>
      LET r == Waiters[k].stack
      IN  /\ Mailbox(k) = <<>>
          /\ Deref(MESSAGES')[k] = <<SentTotal + 1>>
          /\ Sending(CONTEXTS', frame', cpu)
          /\ PosIn(CONTEXTS', r) >= 1
          /\ PosIn(CONTEXTS', r) < PosIn(CONTEXTS', cpu)
          /\ CONTEXTS'[PosIn(CONTEXTS', r)].regs = "recv"
          /\ CONTEXTS'[PosIn(CONTEXTS', r)].id = k
          /\ cpu' = r => pc' = "recv"

\* while a woken receiver has not been resumed, the senders queued behind it
\* stay suspended inside send and the head of its mailbox stays; the receiver
\* leaves that state only by being resumed in recv
C35_OrderStep ==
  \A i \in 1..Len(CONTEXTS) : \A j \in (i + 1)..Len(CONTEXTS) :
    (/\ CONTEXTS[i].saved /\ CONTEXTS[i].regs = "recv"
     /\ CONTEXTS[j].saved /\ CONTEXTS[j].regs = "schedule"
     /\ frame[CONTEXTS[j].stack].call = "send") =>
      LET r == CONTEXTS[i].stack
          s == CONTEXTS[j].stack
          k == CONTEXTS[i].id
          pr == PosIn(CONTEXTS', r)
          ps == PosIn(CONTEXTS', s)
      IN  /\ Sending(CONTEXTS', frame', s)
          /\ cpu' # s
          /\ pr >= 1 /\ pr < ps
          /\ Mailbox(k) # <<>>
          /\ Deref(MESSAGES')[k][1] = Mailbox(k)[1]
          /\ \/ CONTEXTS'[pr].saved /\ CONTEXTS'[pr].regs = "recv" /\ cpu' # r
             \/ /\ pr = 1 /\ cpu' = r /\ pc' = "recv"
                /\ ~CONTEXTS'[1].saved

\* the resumed receiver's recv returns the head of its mailbox
C35_ResumeStep ==
  ResumeRecv =>
    /\ ret'[cpu] = [tag |-> "Some", val |-> Mailbox(Head(CONTEXTS).id)[1]]
    /\ pc' = "user" /\ cpu' = cpu

\* C35: a send to a waiting thread hands over before it returns: the receiver
\* is queued ahead of the sender, so it is resumed and its blocked recv
\* returns while the sender is still suspended inside send, and that recv
\* returns the message sent, the receiver's mailbox having been empty.
C35_HandOver ==
  [][C35_SendStep /\ C35_OrderStep /\ C35_ResumeStep]_vars

\* the receiver has been resumed inside its blocked recv, with the message at
\* the head of its mailbox, while the sender is suspended inside send behind
\* it
C35_Witness ==
  /\ cpu # HOST /\ pc = "recv" /\ panicked = "none"
  /\ ~Head(CONTEXTS).saved
  /\ Mailbox(Head(CONTEXTS).id) = <<SentTotal>>
  /\ Sending(CONTEXTS, frame, CONTEXTS[2].stack)
  /\ Len(CONTEXTS) = 3

\* the thread on stack s is suspended inside spawn, in its schedule
Spawning(q, f, s) ==
  /\ PosIn(q, s) >= 1
  /\ q[PosIn(q, s)].saved /\ q[PosIn(q, s)].regs = "schedule"
  /\ f[s].call = "spawn"

\* spawn by a green thread queues the new thread ahead of its suspended
\* caller and switches away from the caller
C36_SpawnStep ==
  (UserSpawn /\ panicked' = "none") =>
    LET n == alloc
    IN  /\ started[n] = 0 /\ heap[n] = "free" /\ heap'[n] = "guarded"
        /\ Spawning(CONTEXTS', frame', cpu)
        /\ cpu' # cpu
        /\ PosIn(CONTEXTS', n) >= 1
        /\ PosIn(CONTEXTS', n) < PosIn(CONTEXTS', cpu)
        /\ CONTEXTS'[PosIn(CONTEXTS', n)].id = frame'[cpu].arg
        /\ CONTEXTS'[PosIn(CONTEXTS', n)].regs = Registers_new

\* while a thread queued ahead of a suspended spawner has not started its
\* entry function, the spawner stays suspended behind it
C36_OrderStep ==
  \A n, s \in Stacks :
    (/\ PosIn(CONTEXTS, n) >= 1 /\ started[n] = 0
     /\ Spawning(CONTEXTS, frame, s)
     /\ PosIn(CONTEXTS, n) < PosIn(CONTEXTS, s)) =>
      /\ Spawning(CONTEXTS', frame', s)
      /\ cpu' # s
      /\ PosIn(CONTEXTS', n) >= 1
      /\ PosIn(CONTEXTS', n) < PosIn(CONTEXTS', s)
      /\ started'[n] = 1 => (EntryPoint /\ cpu = n)

\* the resumed spawner gets the identity spawn issued
C36_ReturnStep ==
  (ResumeSchedule /\ frame[cpu].call = "spawn") =>
    /\ ret'[cpu] = RetId(frame[cpu].arg)
    /\ pc' = "user" /\ cpu' = cpu

\* C36: spawn called by a green thread returns to its caller only after the
\* new thread has started its entry function and has yielded, blocked or
\* terminated: the new thread is queued ahead of the caller and the caller is
\* not resumed while it has not started.
C36_SpawnReturnsAfterStart ==
  [][C36_SpawnStep /\ C36_OrderStep /\ C36_ReturnStep]_vars

\* spawn has returned an identity that is already released: the thread it
\* created started, returned and is no longer live
C36_Witness ==
  /\ InAny /\ ret[cpu].tag = "id"
  /\ ret[cpu].val \notin Deref(ID)
  /\ \E n \in Stacks \ {cpu} : started[n] = 1 /\ returned[n] = 1

\* in a run of SpecLifetime every message is sent by the first thread before
\* it creates its first receiver, so a message that a receiver's recv returns
\* was appended before that receiver was spawned
C37_RecvStep == ReceiverRecv => ret'[cpu].tag # "Some"

\* C37, as claimed: a thread only receives messages that were sent to it
\* during its own lifetime: recv never returns to a thread a message that was
\* appended to the mailbox before that thread was spawned.
C37_OnlyOwnLifetime == [][C37_RecvStep]_vars

====
